---- MODULE Spec2Model ----
(***************************************************************************)
(* Model of swagger-yaml-to-json-schema: the helpers (get_path, pop_until, *)
(* findInNested, convertNullables, addSchemaProps) and makeSchema /        *)
(* resolve$ref of lib/index.js.                                            *)
(*                                                                         *)
(* A JavaScript value is a record [t, s, kv]: t is its kind ("object",     *)
(* "array", "string", "true", "false", "null", "undefined"), s the         *)
(* characters of a string, kv the own enumerable properties of an object   *)
(* or array in insertion order (an array's keys are its indices).          *)
(* A JavaScript string is the sequence of its characters, so that split,   *)
(* join, slice, startsWith and concat are computed, not assumed.           *)
(***************************************************************************)
EXTENDS Naturals, Sequences, FiniteSets, TLC

(* swagger is the document makeSchema works on and module_swagger the *)
(* module-level binding of lib/index.js that ingestYAML and            *)
(* loadReferenceFile assign.                                           *)
VARIABLES pc, swagger, schema, input, keyWord, found, loads, order, err, configuration,
          module_swagger

vars == <<pc, swagger, schema, input, keyWord, found, loads, order, err, configuration,
          module_swagger>>

---------------------------------------------------------------------------
(* String literals of the source, as character sequences. *)

s_null == <<"n", "u", "l", "l">>
s_schema == <<"s", "c", "h", "e", "m", "a">>
s_name == <<"n", "a", "m", "e">>
s_type == <<"t", "y", "p", "e">>
s_array == <<"a", "r", "r", "a", "y">>
s_items == <<"i", "t", "e", "m", "s">>
s_Dref == <<"$", "r", "e", "f">>
s_description == <<"d", "e", "s", "c", "r", "i", "p", "t", "i", "o", "n">>
s_oneOf == <<"o", "n", "e", "O", "f">>
s_allOf == <<"a", "l", "l", "O", "f">>
s_anyOf == <<"a", "n", "y", "O", "f">>
s_nullable == <<"n", "u", "l", "l", "a", "b", "l", "e">>
s_properties == <<"p", "r", "o", "p", "e", "r", "t", "i", "e", "s">>
s_required == <<"r", "e", "q", "u", "i", "r", "e", "d">>
s_components == <<"c", "o", "m", "p", "o", "n", "e", "n", "t", "s">>
s_schemas == <<"s", "c", "h", "e", "m", "a", "s">>
s_definitions == <<"d", "e", "f", "i", "n", "i", "t", "i", "o", "n", "s">>
s_messages == <<"m", "e", "s", "s", "a", "g", "e", "s">>
s_payload == <<"p", "a", "y", "l", "o", "a", "d">>
s_swagger == <<"s", "w", "a", "g", "g", "e", "r">>
s_openapi == <<"o", "p", "e", "n", "a", "p", "i">>
s_asyncapi == <<"a", "s", "y", "n", "c", "a", "p", "i">>
s_info == <<"i", "n", "f", "o">>
s_title == <<"t", "i", "t", "l", "e">>
s_version == <<"v", "e", "r", "s", "i", "o", "n">>
s_schemaVersion == <<"s", "c", "h", "e", "m", "a", "V", "e", "r", "s", "i", "o", "n">>
s_string == <<"s", "t", "r", "i", "n", "g">>
s_additionalProperties == <<"a", "d", "d", "i", "t", "i", "o", "n", "a", "l", "P", "r", "o", "p", "e", "r", "t", "i", "e", "s">>
s_Dschema == <<"$", "s", "c", "h", "e", "m", "a">>
s_Did == <<"$", "i", "d">>
s_arrayOf == <<"a", "r", "r", "a", "y", "O", "f">>
s_components_ == <<"c", "o", "m", "p", "o", "n", "e", "n", "t", "s", "_">>
s_H_components_schemas == <<"#", "/", "c", "o", "m", "p", "o", "n", "e", "n", "t", "s", "/", "s", "c", "h", "e", "m", "a", "s">>
s_H_definitions == <<"#", "/", "d", "e", "f", "i", "n", "i", "t", "i", "o", "n", "s">>
s_No_description_provided == <<"N", "o", " ", "d", "e", "s", "c", "r", "i", "p", "t", "i", "o", "n", " ", "p", "r", "o", "v", "i", "d", "e", "d">>
s_schemaVersion_description == <<"T", "h", "e", " ", "v", "e", "r", "s", "i", "o", "n", " ", "o", "f", " ", "t", "h", "i", "s", " ", "s", "c", "h", "e", "m", "a", " ", "t", "h", "a", "t", " ", "w", "i", "l", "l", " ", "b", "e", " ", "u", "s", "e", "d", " ", "t", "o", " ", "v", "a", "l", "i", "d", "a", "t", "e", " ", "J", "S", "O", "N", " ", "d", "a", "t", "a">>

---------------------------------------------------------------------------
(* JavaScript values. *)

Node(t, s, kv) == [t |-> t, s |-> s, kv |-> kv]

Undefined == Node("undefined", <<>>, <<>>)

Null == Node("null", <<>>, <<>>)

True == Node("true", <<>>, <<>>)

False == Node("false", <<>>, <<>>)

Str(s) == Node("string", s, <<>>)

Obj(kv) == Node("object", <<>>, kv)

KV(k, v) == [k |-> k, v |-> v]

RECURSIVE Idx(_)
(* String(i) for an array index i. *)
Idx(i) ==
  LET Digits == <<"0", "1", "2", "3", "4", "5", "6", "7", "8", "9">>
  IN IF i < 10 THEN <<Digits[i + 1]>> ELSE Idx(i \div 10) \o <<Digits[(i % 10) + 1]>>

(* The array whose elements are the nodes of the sequence xs. *)
Arr(xs) == Node("array", <<>>, [i \in 1..Len(xs) |-> KV(Idx(i - 1), xs[i])])

(* typeof v === 'object' && !_.isNil(v): objects and arrays. *)
IsObject(n) == n.t \in {"object", "array"}

IsArray(n) == n.t = "array"

IsString(n) == n.t = "string"

(* x == null (null or undefined): a property read of it throws a TypeError. *)
IsNil(n) == n.t \in {"undefined", "null"}

(* JavaScript truthiness. *)
Truthy(n) == ~(IsNil(n) \/ n.t = "false" \/ (n.t = "string" /\ n.s = <<>>))

(* Object.keys(n). *)
Keys(n) == [i \in 1..Len(n.kv) |-> n.kv[i].k]

(* Object.prototype.hasOwnProperty / _.has on one key. *)
Has(n, k) == IsObject(n) /\ \E i \in 1..Len(n.kv) : n.kv[i].k = k

(* n[k]: the property read (undefined when absent; the caller decides *)
(* whether reading from a nil n throws). *)
Prop(n, k) ==
  IF Has(n, k) THEN n.kv[CHOOSE i \in 1..Len(n.kv) : n.kv[i].k = k].v ELSE Undefined

(* n[k] = v: an existing key keeps its position, a new key is appended. *)
(* Assigning to an array keeps it an array.                             *)
SetProp(n, k, v) ==
  IF Has(n, k)
    THEN Node(n.t, n.s, [i \in 1..Len(n.kv) |-> IF n.kv[i].k = k THEN KV(k, v) ELSE n.kv[i]])
    ELSE Node(n.t, n.s, Append(n.kv, KV(k, v)))

RECURSIVE SeqWithout(_, _)
SeqWithout(kv, k) ==
  IF kv = <<>> THEN <<>>
  ELSE IF Head(kv).k = k THEN SeqWithout(Tail(kv), k)
  ELSE <<Head(kv)>> \o SeqWithout(Tail(kv), k)

(* delete n[k]. *)
DeleteProp(n, k) == Node(n.t, n.s, SeqWithout(n.kv, k))

(* {...n}: the own enumerable properties of n copied into a plain object. *)
Spread(n) ==
  IF IsObject(n) THEN Obj(n.kv)
  ELSE IF IsString(n) THEN Obj([i \in 1..Len(n.s) |-> KV(Idx(i - 1), Str(<<n.s[i]>>))])
  ELSE Obj(<<>>)

(* _.omit(n, [k]). *)
Omit(n, k) == Obj(SeqWithout(Spread(n).kv, k))

---------------------------------------------------------------------------
(* Strings. *)

Dot == "."

Slash == "/"

(* s.startsWith(p). *)
StartsWith(s, p) == Len(s) >= Len(p) /\ SubSeq(s, 1, Len(p)) = p

(* s.slice(i) / s.substring(i) for 0 <= i. *)
Slice(s, i) == SubSeq(s, i + 1, Len(s))

RECURSIVE Split(_, _)
(* s.split(sep) for a one-character separator. *)
Split(s, sep) ==
  IF \E i \in 1..Len(s) : s[i] = sep
    THEN LET i == CHOOSE j \in 1..Len(s) : s[j] = sep /\ \A h \in 1..(j - 1) : s[h] # sep
         IN <<SubSeq(s, 1, i - 1)>> \o Split(SubSeq(s, i + 1, Len(s)), sep)
    ELSE <<s>>

RECURSIVE Join(_, _)
(* segs.join(sep). *)
Join(segs, sep) ==
  IF segs = <<>> THEN <<>>
  ELSE IF Len(segs) = 1 THEN segs[1]
  ELSE segs[1] \o <<sep>> \o Join(Tail(segs), sep)

(* s.lastIndexOf('/') + 1, 0 when there is no slash. *)
AfterLastSlash(s) ==
  IF \E i \in 1..Len(s) : s[i] = Slash
    THEN CHOOSE i \in 1..Len(s) : s[i] = Slash /\ \A j \in (i + 1)..Len(s) : s[j] # Slash
    ELSE 0

(* c.toLocaleLowerCase() for one character. *)
ToLower(c) ==
  LET UpperCase == <<"A", "B", "C", "D", "E", "F", "G", "H", "I", "J", "K", "L", "M",
                     "N", "O", "P", "Q", "R", "S", "T", "U", "V", "W", "X", "Y", "Z">>
      LowerCase == <<"a", "b", "c", "d", "e", "f", "g", "h", "i", "j", "k", "l", "m",
                     "n", "o", "p", "q", "r", "s", "t", "u", "v", "w", "x", "y", "z">>
  IN IF \E i \in 1..Len(UpperCase) : UpperCase[i] = c
       THEN LowerCase[CHOOSE i \in 1..Len(UpperCase) : UpperCase[i] = c]
       ELSE c

(* s.charAt(0).toLocaleLowerCase().concat(s.slice(1)). *)
LowerFirst(s) == IF s = <<>> THEN <<>> ELSE <<ToLower(s[1])>> \o Slice(s, 1)

(* _.dropRight(xs) and _.drop(xs). *)
DropRight(xs) == IF xs = <<>> THEN <<>> ELSE SubSeq(xs, 1, Len(xs) - 1)

Drop(xs) == IF xs = <<>> THEN <<>> ELSE Tail(xs)

(* `${v}` for a string or null. *)
Template(v) == IF v.t = "string" THEN v.s ELSE IF v.t = "null" THEN s_null ELSE <<>>

---------------------------------------------------------------------------
(* lodash _.get and _.set on a dotted path (keys without '.', '[' or ']'). *)

RECURSIVE GetSegs(_, _)
GetSegs(n, segs) ==
  IF segs = <<>> THEN n
  ELSE IF IsNil(n) THEN Undefined
  ELSE GetSegs(Prop(n, Head(segs)), Tail(segs))

(* _.get(n, segs) for an array path: undefined for the empty path. *)
GetPathArray(n, segs) == IF segs = <<>> THEN Undefined ELSE GetSegs(n, segs)

(* _.get(n, path) for a dotted string. *)
Get(n, path) == GetPathArray(n, Split(path, Dot))

RECURSIVE SetSegs(_, _, _)
SetSegs(n, segs, v) ==
  IF segs = <<>> THEN v
  ELSE LET base == IF IsObject(n) THEN n ELSE Obj(<<>>)
       IN SetProp(base, Head(segs), SetSegs(Prop(base, Head(segs)), Tail(segs), v))

(* _.set(n, segs, v) for an array path: the empty path sets nothing. *)
SetPathArray(n, segs, v) == IF segs = <<>> \/ ~IsObject(n) THEN n ELSE SetSegs(n, segs, v)

(* _.set(n, path, v) for a dotted string. *)
Set(n, path, v) == SetPathArray(n, Split(path, Dot), v)

---------------------------------------------------------------------------
(* helpers: get_path, pop_until, findInNested, convertNullables. *)

RECURSIVE get_path(_, _, _)
(* get_path(keyWord, obj, previous_path): the dotted paths, in key order, *)
(* of the keys that equal keyWord or whose value equals keyWord; a match  *)
(* is not searched beneath. previous_path is Null or a string.            *)
get_path(kw, obj, previous_path) ==
  LET RECURSIVE Reduce(_, _)
      Reduce(acc, i) ==
        IF i > Len(obj.kv) THEN acc
        ELSE LET key == obj.kv[i].k
                 val == obj.kv[i].v
             IN IF key = kw \/ val = Str(kw)
                  THEN Reduce(Append(acc, Template(previous_path) \o <<Dot>> \o key), i + 1)
                ELSE IF ~IsObject(val)
                  THEN Reduce(acc, i + 1)
                ELSE LET path == IF previous_path = Null
                                   THEN key
                                   ELSE Template(previous_path) \o <<Dot>> \o key
                     IN Reduce(acc \o get_path(kw, val, Str(path)), i + 1)
  IN Reduce(<<>>, 1)

RECURSIVE pop_until(_, _)
(* pop_until(array, keyWord): pop until the popped segment is keyWord or *)
(* nothing is left; what remains.                                        *)
pop_until(array, kw) ==
  IF array = <<>> THEN <<>>
  ELSE LET popped == array[Len(array)]
           tmp == DropRight(array)
       IN IF kw # popped /\ Len(tmp) > 0 THEN pop_until(tmp, kw) ELSE tmp

RECURSIVE findInNested(_, _, _)
(* findInNested(obj, key): the sub-objects owning key, outermost only, as *)
(* their positions (key sequences from the root, at) in document order.   *)
findInNested(obj, key, at) ==
  IF Has(obj, key) THEN <<at>>
  ELSE LET RECURSIVE Flatten(_)
           Flatten(i) ==
             IF i > Len(obj.kv) THEN <<>>
             ELSE (IF obj.kv[i].v.t \in {"object", "array", "null"}
                     THEN findInNested(obj.kv[i].v, key, Append(at, obj.kv[i].k))
                     ELSE <<>>) \o Flatten(i + 1)
       IN Flatten(1)

(* One iteration of convertNullables' loop on the object at position at. *)
convertNullableItem(root, at) ==
  LET item == GetSegs(root, at)
      typ == Prop(item, s_type)
  IN SetSegs(root, at, SetProp(DeleteProp(item, s_nullable), s_type, Arr(<<typ, Str(s_null)>>)))

(* convertNullables(schemaObj): the object after the in-place rewrite. *)
convertNullables(schemaObj) ==
  LET withNullables == findInNested(schemaObj, s_nullable, <<>>)
      RECURSIVE Loop(_, _)
      Loop(root, i) ==
        IF i > Len(withNullables) THEN root
        ELSE Loop(convertNullableItem(root, withNullables[i]), i + 1)
  IN Loop(schemaObj, 1)

RECURSIVE NodePaths(_)
(* Every position (key sequence) of an object or array in the tree n, n included. *)
NodePaths(n) ==
  IF ~IsObject(n) THEN {}
  ELSE {<<>>} \cup UNION { { <<n.kv[i].k>> \o p : p \in NodePaths(n.kv[i].v) } : i \in 1..Len(n.kv) }

Range(f) == { f[i] : i \in DOMAIN f }

---------------------------------------------------------------------------
(* helpers: addSchemaProps. *)

(* String(v) as string concatenation renders v. *)
Concat(v) ==
  IF v.t = "string" THEN v.s
  ELSE IF v.t = "undefined" THEN <<"u", "n", "d", "e", "f", "i", "n", "e", "d">>
  ELSE Template(v)

(* xs[i] of a JavaScript array of strings held as a sequence: undefined *)
(* past the end.                                                        *)
At(xs, i) == IF i + 1 \in 1..Len(xs) THEN Str(xs[i + 1]) ELSE Undefined

(* propPath.slice(propPath.lastIndexOf('/') + 1). *)
RefName(propPath) == Slice(propPath, AfterLastSlash(propPath))

(* resolveCombineSchema(schema): the list under oneOf, else allOf, else anyOf. *)
resolveCombineSchema(sch) ==
  IF Truthy(Prop(sch, s_oneOf)) THEN Prop(sch, s_oneOf)
  ELSE IF Truthy(Prop(sch, s_allOf)) THEN Prop(sch, s_allOf)
  ELSE IF Truthy(Prop(sch, s_anyOf)) THEN Prop(sch, s_anyOf)
  ELSE Undefined

(* The outcome of naming one container: throws (a TypeError inside the *)
(* try), skip (continue without a registration), or the names under    *)
(* which container.schema is registered, in order. When a combinator   *)
(* list throws part-way, names holds the registrations already made.   *)
Naming(throws, skip, names) == [throws |-> throws, skip |-> skip, names |-> names]

(* Lines 81-90: the forEach over the combinator list. *)
combineNames(combine_schema) ==
  LET RECURSIVE Each(_, _)
      Each(acc, i) ==
        IF i > Len(combine_schema.kv) THEN Naming(FALSE, FALSE, acc)
        ELSE LET ref == combine_schema.kv[i].v
                 propPath == Prop(ref, s_Dref)
             IN IF IsNil(ref) \/ ~IsString(propPath)
                  THEN Naming(TRUE, FALSE, acc)
                  ELSE Each(Append(acc, LowerFirst(RefName(propPath.s))), i + 1)
  IN IF ~IsArray(combine_schema) THEN Naming(TRUE, FALSE, <<>>) ELSE Each(<<>>, 1)

(* A variant of arrayPropName that derives the name from the $ref even *)
(* when the container has a name.                                      *)
arrayPropName_refFirst(name, propPath) ==
  IF ~IsString(propPath) THEN Naming(TRUE, FALSE, <<>>)
  ELSE Naming(FALSE, FALSE, <<s_arrayOf \o RefName(propPath.s)>>)

(* Lines 68-70: the name of an array schema whose items.$ref is propPath: *)
(* the container's name when it has one, else arrayOf<RefName>.           *)
arrayPropName(name, propPath) ==
  IF Truthy(name) THEN Naming(FALSE, FALSE, <<Concat(name)>>)
  ELSE IF ~IsString(propPath) THEN Naming(TRUE, FALSE, <<>>)
  ELSE Naming(FALSE, FALSE, <<s_arrayOf \o RefName(propPath.s)>>)

(* Lines 74-77: the name of a scalar schema: the container's name when it *)
(* has one, else <keyPath[0] without its first character>_<keyPath[2]>.   *)
scalarPropName(name, keyPath) ==
  IF Truthy(name) THEN Naming(FALSE, FALSE, <<Concat(name)>>)
  ELSE IF At(keyPath, 0) = Undefined THEN Naming(TRUE, FALSE, <<>>)
  ELSE Naming(FALSE, FALSE, <<Slice(At(keyPath, 0).s, 1) \o <<"_">> \o Concat(At(keyPath, 2))>>)

(* Lines 93-97: the name of a bare $ref schema, whatever the container's name. *)
refPropName(name, propPath) ==
  IF ~IsString(propPath) THEN Naming(TRUE, FALSE, <<>>)
  ELSE Naming(FALSE, FALSE, <<LowerFirst(RefName(propPath.s))>>)

(* Lines 60-98: the property name(s) for a container's schema sch. *)
schemaNames(name, sch, keyPath, typ) ==
  IF Truthy(typ)
    THEN IF typ = Str(s_array)
           THEN IF IsNil(Prop(sch, s_items)) THEN Naming(TRUE, FALSE, <<>>)
                ELSE IF ~Truthy(Prop(Prop(sch, s_items), s_Dref)) THEN Naming(FALSE, TRUE, <<>>)
                ELSE arrayPropName(name, Prop(Prop(sch, s_items), s_Dref))
           ELSE scalarPropName(name, keyPath)
  ELSE IF Truthy(Prop(sch, s_oneOf)) \/ Truthy(Prop(sch, s_allOf)) \/ Truthy(Prop(sch, s_anyOf))
    THEN combineNames(resolveCombineSchema(sch))
  ELSE refPropName(name, Prop(sch, s_Dref))

(* Lines 54-59: the container's name and schema; reading the schema's *)
(* type throws when either the container or its schema is nil.        *)
containerNames(container, keyPath) ==
  IF IsNil(container) \/ IsNil(Prop(container, s_schema)) THEN Naming(TRUE, FALSE, <<>>)
  ELSE schemaNames(Prop(container, s_name), Prop(container, s_schema), keyPath,
                   Prop(Prop(container, s_schema), s_type))

(* Lines 52-98: the property name(s) for the container of one matched path. *)
propNames(doc, paths) ==
  containerNames(Get(doc, Join(DropRight(Split(paths, Dot)), Dot)), Drop(Split(paths, Dot)))

(* Lines 88 and 100: container.schema with the container's description. *)
describedSchema(container) ==
  SetProp(Prop(container, s_schema), s_description, Prop(container, s_description))

(* Lines 89 and 101: the described schema stored under each name. *)
storeSchema(st, containerPath, naming, described) ==
  LET RECURSIVE Store(_, _)
      Store(bag, i) ==
        IF i > Len(naming.names) THEN bag
        ELSE Store(SetProp(bag, naming.names[i], described), i + 1)
  IN IF naming.names = <<>>
       THEN [st EXCEPT !.err = IF naming.throws THEN "parse" ELSE "none"]
     ELSE [props |-> Store(st.props, 1),
           doc |-> SetPathArray(st.doc, Append(containerPath, s_schema), described),
           err |-> IF naming.throws THEN "parse" ELSE "none"]

(* Lines 88-89 and 100-101 for one container: container.schema, with its *)
(* description set to the container's, is stored under each name; the    *)
(* schema object is shared with the document, which sees the description *)
(* too.                                                                  *)
registerSchema(st, paths) ==
  IF st.err # "none" THEN st
  ELSE storeSchema(st, DropRight(Split(paths, Dot)), propNames(st.doc, paths),
                   describedSchema(GetPathArray(st.doc, DropRight(Split(paths, Dot)))))

(* addSchemaProps(swagger, schemaProps): the property bag and the document *)
(* after the loop, and "parse" when the catch rethrows.                    *)
addSchemaProps(doc, schemaProps) ==
  LET result == get_path(s_schema, doc, Null)
      RECURSIVE Loop(_, _)
      Loop(st, i) == IF i > Len(result) THEN st ELSE Loop(registerSchema(st, result[i]), i + 1)
  IN Loop([props |-> schemaProps, doc |-> doc, err |-> "none"], 1)

---------------------------------------------------------------------------
(* resolve$ref: the rewrite and merge of loaded fragments. *)

s_Hash == <<"#">>

(* {...a, ...b}: a's keys in a's order with b's values where b has the *)
(* key, then b's other keys.                                            *)
SpreadBoth(a, b) ==
  LET RECURSIVE Put(_, _)
      Put(acc, i) ==
        IF i > Len(Spread(b).kv) THEN acc
        ELSE Put(SetProp(acc, Spread(b).kv[i].k, Spread(b).kv[i].v), i + 1)
  IN Put(Spread(a), 1)

(* Line 112-115: the paths of the $refs that do not start with '#'; *)
(* throws when a matched position does not hold a string.           *)
externalKeyPaths(doc) ==
  LET all == get_path(s_Dref, doc, Null)
  IN [throws |-> \E i \in 1..Len(all) : ~IsString(Get(doc, all[i])),
      paths |-> SelectSeq(all, LAMBDA keyPath :
                  IsString(Get(doc, keyPath)) /\ ~StartsWith(Get(doc, keyPath).s, s_Hash))]

(* Line 121: keyPath.split('.').slice(-2, -1)[0]. *)
refName(keyPath) == LET segs == Split(keyPath, Dot) IN segs[Len(segs) - 1]

(* ref_name.startsWith('/') ? ref_name.substring(1) : ref_name. *)
StripSlash(name) == IF StartsWith(name, <<Slash>>) THEN Slice(name, 1) ELSE name

(* Lines 124-145: the pointer that replaces the $ref string v of a *)
(* fragment loaded for the namespace ref_name.                     *)
rewritePointer(v, ref_name) ==
  LET parts == Split(v, Slash)
      type == parts[Len(parts)]
      definitions == DropRight(parts)
  IN IF ~StartsWith(v, s_Hash)
       THEN LET prefix_length == Len(pop_until(definitions, s_components))
            IN <<"#", "/">>
                 \o Join(Append(SubSeq(definitions, prefix_length + 1, Len(definitions)),
                                s_components_ \o type), Slash)
       ELSE Join(Append(definitions, StripSlash(ref_name) \o <<"_">> \o type), Slash)

(* Lines 122-146: the fragment with every $ref rewritten; throws on a *)
(* nil fragment (Object.keys) and on a matched position without a     *)
(* string (split).                                                    *)
rewriteFragment(frag, ref_name) ==
  LET refPaths == get_path(s_Dref, frag, Null)
      RECURSIVE Each(_, _)
      Each(cur, i) ==
        IF i > Len(refPaths) THEN [throws |-> FALSE, frag |-> cur]
        ELSE IF ~IsString(Get(cur, refPaths[i])) THEN [throws |-> TRUE, frag |-> cur]
        ELSE Each(Set(cur, refPaths[i], Str(rewritePointer(Get(cur, refPaths[i]).s, ref_name))), i + 1)
  IN IF IsNil(frag) THEN [throws |-> TRUE, frag |-> frag] ELSE Each(frag, 1)

(* Lines 147-150 for one fragment rewritten as rw: without its components *)
(* it replaces the parent of its $ref, and its components.schemas are     *)
(* collected under its namespace; a throw of the rewrite leaves the       *)
(* document as it is.                                                     *)
applyFragment(st, keyPath, ref_name, rw) ==
  IF rw.throws THEN [st EXCEPT !.err = "TypeError"]
  ELSE [doc |-> SetPathArray(st.doc, DropRight(Split(keyPath, Dot)), Omit(rw.frag, s_components)),
        components |->
          IF Truthy(Prop(rw.frag, s_components))
            THEN Append(st.components, KV(ref_name, Prop(Prop(rw.frag, s_components), s_schemas)))
            ELSE st.components,
        err |-> "none"]

(* Lines 119-151: the forEach over the joined fragments; it ends at the *)
(* first throw.                                                         *)
applyFragments(doc, keyPaths, fragments) ==
  LET RECURSIVE Each(_, _)
      Each(st, index) ==
        IF index > Len(fragments) \/ st.err # "none" THEN st
        ELSE Each(applyFragment(st, keyPaths[index], refName(keyPaths[index]),
                                rewriteFragment(fragments[index], refName(keyPaths[index]))),
                  index + 1)
  IN Each([doc |-> doc, components |-> <<>>, err |-> "none"], 1)

(* _.mapKeys(schemas, key => namespace_key). *)
renameKeys(curr, schemas) ==
  Obj([i \in 1..Len(Spread(schemas).kv) |->
         KV(StripSlash(curr) \o <<"_">> \o Spread(schemas).kv[i].k, Spread(schemas).kv[i].v)])

(* Lines 152-164: the reduce over the collected components: an entry *)
(* already accumulated wins over a later one with the same key.      *)
mergeComponents(components) ==
  LET RECURSIVE Reduce(_, _)
      Reduce(acc, i) ==
        IF i > Len(components) THEN acc
        ELSE Reduce(SpreadBoth(SpreadBoth(renameKeys(components[i].k, components[i].v), Obj(<<>>)), acc),
                    i + 1)
  IN Reduce(Obj(<<>>), 1)

(* Line 166: the merged components replace components.schemas. *)
setComponents(doc, merged) ==
  IF merged.kv # <<>>
    THEN [doc |-> SetPathArray(doc, <<s_components, s_schemas>>, merged), err |-> "none"]
    ELSE [doc |-> doc, err |-> "none"]

(* Lines 152-167 on what the forEach left. *)
mergeApplied(applied) ==
  IF applied.err # "none" THEN [doc |-> applied.doc, err |-> applied.err]
  ELSE setComponents(applied.doc, mergeComponents(applied.components))

(* Lines 119-167: what resolve$ref does once the loads are joined. *)
joinFragments(doc, keyPaths, fragments) ==
  mergeApplied(applyFragments(doc, keyPaths, fragments))

---------------------------------------------------------------------------
(* makeSchema: the fixups after $ref resolution. *)

(* The re-map of array items: a string under items, beside a key or value *)
(* 'array', becomes { type: <string> }.                                   *)
remapArrayItems(sch) ==
  LET arrayPath == get_path(s_array, sch, Null)
      RECURSIVE ForEach(_, _)
      ForEach(cur, i) ==
        IF i > Len(arrayPath) THEN cur
        ELSE LET itemsPath == Join(DropRight(Split(arrayPath[i], Dot)), Dot) \o <<Dot>> \o s_items
                 value == Get(cur, itemsPath)
             IN IF IsString(value)
                  THEN ForEach(Set(cur, itemsPath, Obj(<<KV(s_type, value)>>)), i + 1)
                  ELSE ForEach(cur, i + 1)
  IN ForEach(sch, 1)

(* should_pass: per path of a 'required', the dotted path of its owner *)
(* when the value is an array, undefined otherwise.                    *)
should_pass(sch, requiredPath) ==
  [i \in 1..Len(requiredPath) |->
     IF IsArray(Get(sch, requiredPath[i]))
       THEN Str(Join(DropRight(Split(requiredPath[i], Dot)), Dot))
       ELSE Undefined]

RECURSIVE Uniq(_)
(* _.uniq: first occurrences, in order. *)
Uniq(xs) ==
  IF xs = <<>> THEN <<>>
  ELSE LET init == Uniq(DropRight(xs))
           last == xs[Len(xs)]
       IN IF \E i \in 1..Len(init) : init[i] = last THEN init ELSE Append(init, last)

(* requiredParentPath: the distinct non-empty paths left of the last *)
(* 'properties' segment of each path of a 'required'.                *)
requiredParentPath(requiredPath) ==
  SelectSeq(
    Uniq([i \in 1..Len(requiredPath) |->
            Join(pop_until(Split(requiredPath[i], Dot), s_properties), Dot)]),
    LAMBDA keyPath : keyPath # <<>>)

(* The body of the inner forEach for one property key of one parent path. *)
migrateProperty(sch, skip, keyPath, key) ==
  IF \E i \in 1..Len(skip) : skip[i] = Str(key) THEN sch
  ELSE LET required_path == keyPath \o <<Dot>> \o s_properties \o <<Dot>> \o key
           properties_path == Join(pop_until(Split(required_path, Dot), s_properties), Dot)
           got == Get(sch, properties_path \o <<Dot>> \o s_required)
           required_collections == IF IsArray(got) THEN got ELSE Arr(<<>>)
       IN IF \E i \in 1..Len(required_collections.kv) : required_collections.kv[i].v = Str(key)
            THEN sch
            ELSE LET omitted == Set(sch, required_path, Omit(Get(sch, required_path), s_required))
                     value == Get(omitted, properties_path)
                     collected == Arr([i \in 1..(Len(required_collections.kv) + 1) |->
                                        IF i <= Len(required_collections.kv)
                                          THEN required_collections.kv[i].v
                                          ELSE Str(key)])
                 IN Set(omitted, properties_path, SetProp(Spread(value), s_required, collected))

(* The re-map of boolean required flags to required collections. *)
remapRequired(sch) ==
  LET requiredPath == get_path(s_required, sch, Null)
      skip == should_pass(sch, requiredPath)
      parents == requiredParentPath(requiredPath)
      RECURSIVE Inner(_, _, _, _)
      Inner(cur, keyPath, keys, j) ==
        IF j > Len(keys) THEN cur
        ELSE Inner(migrateProperty(cur, skip, keyPath, keys[j]), keyPath, keys, j + 1)
      RECURSIVE Outer(_, _)
      Outer(cur, i) ==
        IF i > Len(parents) THEN cur
        ELSE Outer(Inner(cur, parents[i], Keys(Prop(Get(cur, parents[i]), s_properties)), 1), i + 1)
  IN Outer(sch, 1)

(* Both fixups, in the order makeSchema runs them. *)
fixups(sch) == remapRequired(remapArrayItems(sch))

---------------------------------------------------------------------------
(* makeSchema: assembling the schema. *)

(* extractSchemaPropertiesFromAsyncAPI(messages): per message with an *)
(* object payload (typeof null is 'object' too), the message spread   *)
(* with its payload, without the payload key; throws on a nil message *)
(* or nil messages.                                                   *)
extractSchemaPropertiesFromAsyncAPI(messages) ==
  LET RECURSIVE Reduce(_, _)
      Reduce(r, i) ==
        IF i > Len(Spread(messages).kv) THEN [throws |-> FALSE, props |-> r]
        ELSE LET key == Spread(messages).kv[i].k
                 value == Spread(messages).kv[i].v
             IN IF IsNil(value) THEN [throws |-> TRUE, props |-> r]
                ELSE IF IsObject(Prop(value, s_payload)) \/ Prop(value, s_payload) = Null
                  THEN Reduce(SetProp(r, key,
                                DeleteProp(SpreadBoth(value, Prop(value, s_payload)), s_payload)), i + 1)
                  ELSE Reduce(r, i + 1)
  IN IF IsNil(messages) THEN [throws |-> TRUE, props |-> Obj(<<>>)] ELSE Reduce(Obj(<<>>), 1)

RECURSIVE ReplaceAll(_, _, _)
(* s.replaceAll(from, to) for a literal, non-empty from. *)
ReplaceAll(s, from, to) ==
  IF Len(s) < Len(from) THEN s
  ELSE IF StartsWith(s, from) THEN to \o ReplaceAll(Slice(s, Len(from)), from, to)
  ELSE <<s[1]>> \o ReplaceAll(Slice(s, 1), from, to)

RECURSIVE replacePointerPrefix(_)
(* Lines 247-249: JSON.parse(JSON.stringify(n).replaceAll(               *)
(* '#/components/schemas', '#/definitions')): every key and string has   *)
(* the prefix replaced, a key whose value is undefined is dropped, an    *)
(* undefined array element becomes null.                                 *)
replacePointerPrefix(n) ==
  IF n.t = "string" THEN Str(ReplaceAll(n.s, s_H_components_schemas, s_H_definitions))
  ELSE IF n.t = "array"
    THEN Node("array", <<>>,
              [i \in 1..Len(n.kv) |->
                 KV(n.kv[i].k, IF n.kv[i].v = Undefined THEN Null ELSE replacePointerPrefix(n.kv[i].v))])
  ELSE IF n.t = "object"
    THEN LET kept == SelectSeq(n.kv, LAMBDA e : e.v # Undefined)
         IN Obj([i \in 1..Len(kept) |->
                   KV(ReplaceAll(kept[i].k, s_H_components_schemas, s_H_definitions),
                      replacePointerPrefix(kept[i].v))])
  ELSE n

Dangling == Node("dangling", <<>>, <<>>)

RECURSIVE HasDangling(_)
HasDangling(n) == n = Dangling \/ \E i \in 1..Len(n.kv) : HasDangling(n.kv[i].v)

RECURSIVE dereferenceNode(_, _)
(* The dereferencer on one node of the tree root: an object with a     *)
(* string $ref '#/a/b' is replaced by the dereferenced target, its own *)
(* other keys kept in front; a pointer to nothing, or out of the       *)
(* document, is dangling.                                              *)
dereferenceNode(root, n) ==
  IF ~IsObject(n) THEN n
  ELSE IF n.t = "object" /\ IsString(Prop(n, s_Dref))
    THEN LET ptr == Prop(n, s_Dref).s
             target == GetPathArray(root, Split(Slice(ptr, 2), Slash))
         IN IF ~StartsWith(ptr, <<"#", "/">>) \/ target = Undefined THEN Dangling
            ELSE IF Len(n.kv) > 1 /\ IsObject(dereferenceNode(root, target))
              THEN SpreadBoth(DeleteProp(n, s_Dref),
                              Obj(SelectSeq(dereferenceNode(root, target).kv,
                                            LAMBDA e : ~Has(n, e.k))))
            ELSE dereferenceNode(root, target)
  ELSE Node(n.t, n.s, [i \in 1..Len(n.kv) |-> KV(n.kv[i].k, dereferenceNode(root, n.kv[i].v))])

(* refParser.parseRefs(schema): the schema with every pointer inlined, *)
(* or a failure.                                                       *)
parseRefs(sch) ==
  LET out == dereferenceNode(sch, sch)
  IN [throws |-> HasDangling(out), schema |-> out]

(* The configuration options that do not vary in the model. *)
ConfigSchema == Str(<<"d", "r", "a", "f", "t", "-", "0", "7">>)

ConfigAdditionalProperties == False

(* Lines 186-192 and 213-222: the head of the schema. *)
schemaHead(info, config) ==
  Obj(<<KV(s_Dschema, ConfigSchema)>>
      \o (IF Truthy(config.id) THEN <<KV(s_Did, config.id)>> ELSE <<>>)
      \o <<KV(s_title, Prop(info, s_title)),
           KV(s_version, Prop(info, s_version)),
           KV(s_description, IF Truthy(Prop(info, s_description))
                               THEN Prop(info, s_description)
                               ELSE Str(s_No_description_provided)),
           KV(s_additionalProperties, ConfigAdditionalProperties)>>)

(* Lines 224-230: the properties before addSchemaProps: schemaVersion, *)
(* then the properties extracted from the messages.                    *)
seedProps(extracted) ==
  SpreadBoth(Obj(<<KV(s_schemaVersion,
                      Obj(<<KV(s_type, Str(s_string)),
                            KV(s_description, Str(s_schemaVersion_description))>>))>>),
             extracted)

(* Lines 195-210: the document's definitions (Swagger 2) or *)
(* components.schemas.                                        *)
schemaPart(doc) ==
  IF Truthy(Prop(doc, s_swagger)) THEN Prop(doc, s_definitions)
  ELSE Prop(Prop(doc, s_components), s_schemas)

(* Lines 232-250 once the definitions have their nullables converted: *)
(* the schema, with the pointer prefix replaced for OpenAPI 3 and     *)
(* AsyncAPI, and the document, which shares the definitions.          *)
assembleWhole(doc, head, props, definitions) ==
  [err |-> "none",
   schema |-> IF Truthy(Prop(doc, s_openapi)) \/ Truthy(Prop(doc, s_asyncapi))
                THEN replacePointerPrefix(
                       SetProp(SetProp(SetProp(head, s_properties, props),
                                       s_required, Arr(<<Str(s_schemaVersion)>>)),
                               s_definitions, definitions))
                ELSE SetProp(SetProp(SetProp(head, s_properties, props),
                                     s_required, Arr(<<Str(s_schemaVersion)>>)),
                             s_definitions, definitions),
   doc |-> IF ~IsObject(definitions) THEN doc
           ELSE IF Truthy(Prop(doc, s_swagger)) THEN SetProp(doc, s_definitions, definitions)
           ELSE SetPathArray(doc, <<s_components, s_schemas>>, definitions)]

(* Lines 235-250 on what addSchemaProps returned. *)
assembleAdded(head, added) ==
  IF added.err # "none" THEN [err |-> added.err, schema |-> Undefined, doc |-> added.doc]
  ELSE assembleWhole(added.doc, head, added.props,
                     IF IsObject(schemaPart(added.doc)) THEN convertNullables(schemaPart(added.doc))
                     ELSE schemaPart(added.doc))

(* Lines 224-250 on the properties extracted from the messages. *)
assembleExtracted(doc, head, extracted) ==
  IF extracted.throws THEN [err |-> "TypeError", schema |-> Undefined, doc |-> doc]
  ELSE assembleAdded(head, addSchemaProps(doc, seedProps(extracted.props)))

(* Lines 186-250 of makeSchema, after resolve$ref returned: the schema  *)
(* before dereferencing and the fixups, the document as addSchemaProps  *)
(* left it, and the error thrown, if any.                               *)
assembleSchema(doc, config) ==
  IF IsNil(Prop(doc, s_info))
       \/ (~Truthy(Prop(doc, s_swagger)) /\ IsNil(Prop(doc, s_components)))
    THEN [err |-> "TypeError", schema |-> Undefined, doc |-> doc]
  ELSE assembleExtracted(doc, schemaHead(Prop(doc, s_info), config),
         IF ~Truthy(Prop(doc, s_swagger)) /\ Truthy(Prop(doc, s_asyncapi))
           THEN extractSchemaPropertiesFromAsyncAPI(Prop(Prop(doc, s_components), s_messages))
           ELSE [throws |-> FALSE, props |-> Obj(<<>>)])

---------------------------------------------------------------------------
(* Bounded inputs. *)

(* Objects of one or two distinct keys (in either order) over the given *)
(* keys and values.                                                     *)
ObjectsOver(keys, vals) ==
  { Obj(<<KV(k, v)>>) : k \in keys, v \in vals }
    \cup { Obj(<<KV(ks[1], v1), KV(ks[2], v2)>>) :
             ks \in { q \in keys \X keys : q[1] # q[2] }, v1 \in vals, v2 \in vals }

RECURSIVE TreesOver(_, _, _)
(* The leaves, and the objects over keys nested at most d deep. *)
TreesOver(keys, leaves, d) ==
  IF d = 0 THEN leaves ELSE leaves \cup ObjectsOver(keys, TreesOver(keys, leaves, d - 1))

NoConfiguration == [resolveRefs |-> FALSE, id |-> Undefined]

---------------------------------------------------------------------------
(* get_path applied to bounded trees. *)

PathDepth == 2

(* The trees over the keys a and $ref with the strings X and $ref as leaves. *)
PathInputs(depth) ==
  { n \in TreesOver({<<"a">>, s_Dref}, {Str(<<"X">>), Str(s_Dref)}, depth) : IsObject(n) }

InitPath ==
  /\ pc = "get_path"
  /\ input \in PathInputs(PathDepth)
  /\ keyWord \in {s_Dref, <<"X">>}
  /\ swagger = Undefined
  /\ schema = Undefined
  /\ found = <<>>
  /\ loads = <<>>
  /\ order = <<>>
  /\ err = "none"
  /\ configuration = NoConfiguration
  /\ module_swagger = Obj(<<>>)

CallGetPath ==
  /\ pc = "get_path"
  /\ found' = get_path(keyWord, input, Null)
  /\ pc' = "done"
  /\ UNCHANGED <<swagger, schema, input, keyWord, loads, order, err, configuration, module_swagger>>

SpecPath == InitPath /\ [][CallGetPath]_vars

(* Every position of the tree n, as the key sequence leading to it, whose *)
(* key is kw or whose value is the string kw.                             *)
MatchPositions(kw, n) ==
  { q \in UNION { { Append(p, k) : k \in Range(Keys(GetSegs(n, p))) } : p \in NodePaths(n) } :
      q[Len(q)] = kw \/ GetSegs(n, q) = Str(kw) }

(* C7: get_path returns exactly the positions, at any depth (the root    *)
(* level and beneath other matching keys included), whose key or value   *)
(* equals the keyword, and every returned dotted path navigated from the *)
(* root of the same tree resolves to the matched node's value.           *)
C7_GetPathAllPositions ==
  pc = "done" =>
    /\ { Split(f, Dot) : f \in Range(found) } = MatchPositions(keyWord, input)
    /\ \A f \in Range(found) :
         /\ Split(f, Dot) \in MatchPositions(keyWord, input)
         /\ Get(input, f) = GetSegs(input, Split(f, Dot))
         /\ Get(input, f) # Undefined

---------------------------------------------------------------------------
(* convertNullables applied to bounded definition trees. *)

NullableDepth == 2

NullableLeaves ==
  { Obj(<<KV(s_type, Str(s_string))>>),
    Obj(<<KV(s_type, Str(s_string)), KV(s_nullable, True)>>),
    Obj(<<KV(s_nullable, False), KV(s_type, Str(s_array))>>) }

RECURSIVE NullableSchemas(_)
(* Schemas nested at most d deep: leaves, and objects (nullable or not) *)
(* holding a schema under properties.<a>.                                *)
NullableSchemas(d) ==
  IF d = 0 THEN NullableLeaves
  ELSE NullableLeaves
    \cup { Obj(<<KV(s_type, Str(<<"o">>)), KV(s_properties, Obj(<<KV(<<"a">>, x)>>))>>) :
             x \in NullableSchemas(d - 1) }
    \cup { Obj(<<KV(s_type, Str(<<"o">>)), KV(s_nullable, True),
                 KV(s_properties, Obj(<<KV(<<"a">>, x)>>))>>) : x \in NullableSchemas(d - 1) }

NullableInputs(depth) ==
  { Obj(<<KV(<<"A">>, x), KV(<<"B">>, y)>>) :
      x \in NullableSchemas(depth), y \in NullableSchemas(depth - 1) }

InitNullable ==
  /\ pc = "convertNullables"
  /\ schema \in NullableInputs(NullableDepth)
  /\ input = schema
  /\ swagger = Undefined
  /\ keyWord = <<>>
  /\ found = <<>>
  /\ loads = <<>>
  /\ order = <<>>
  /\ err = "none"
  /\ configuration = NoConfiguration
  /\ module_swagger = Obj(<<>>)

CallConvertNullables ==
  /\ pc = "convertNullables"
  /\ schema' = convertNullables(schema)
  /\ pc' = "done"
  /\ UNCHANGED <<swagger, input, keyWord, found, loads, order, err, configuration, module_swagger>>

SpecNullable == InitNullable /\ [][CallConvertNullables]_vars

(* C2: after convertNullables every node that owned a nullable key, at  *)
(* any depth (beneath another such node included), has no nullable key  *)
(* and has type [T, "null"] for its original type T; a tree without any *)
(* nullable key is unchanged.                                           *)
C2_EveryNullableConverted ==
  pc = "done" =>
    /\ \A p \in NodePaths(input) :
         Has(GetSegs(input, p), s_nullable) =>
           /\ ~Has(GetSegs(schema, p), s_nullable)
           /\ Prop(GetSegs(schema, p), s_type)
                = Arr(<<Prop(GetSegs(input, p), s_type), Str(s_null)>>)
    /\ (\A p \in NodePaths(input) : ~Has(GetSegs(input, p), s_nullable)) => schema = input

---------------------------------------------------------------------------
(* The fixups applied to bounded resolved schemas, then to their own result. *)

FixDepth == 2

FixLeaves ==
  { Obj(<<KV(s_type, Str(s_string))>>),
    Obj(<<KV(s_required, True)>>),
    Obj(<<KV(s_type, Str(s_string)), KV(s_required, False)>>),
    Obj(<<KV(s_type, Str(s_array)), KV(s_items, Str(<<"W">>))>>) }

RECURSIVE FixSchemas(_)
(* Schemas nested at most d deep: leaves, and objects with properties x *)
(* and y, with or without a required collection of their own.           *)
FixSchemas(d) ==
  IF d = 0 THEN FixLeaves
  ELSE FixLeaves
    \cup { Obj(<<KV(s_properties, Obj(<<KV(<<"x">>, a), KV(<<"y">>, b)>>))>>) :
             a \in FixSchemas(d - 1), b \in FixLeaves }
    \cup { Obj(<<KV(s_properties, Obj(<<KV(<<"x">>, a), KV(<<"y">>, b)>>)),
                 KV(s_required, Arr(<<Str(<<"y">>)>>))>>) :
             a \in FixSchemas(d - 1), b \in FixLeaves }

(* A resolved schema as makeSchema holds it before the fixups. *)
FixInputs(depth) ==
  { Obj(<<KV(s_properties, Obj(<<KV(<<"O">>, o)>>)),
          KV(s_required, Arr(<<Str(s_schemaVersion)>>)),
          KV(s_definitions, Obj(<<KV(<<"D">>, d)>>))>>) :
      o \in FixSchemas(depth), d \in FixSchemas(depth - 2) }

InitFixups ==
  /\ pc = "fixups"
  /\ schema \in FixInputs(FixDepth)
  /\ input = schema
  /\ swagger = Undefined
  /\ keyWord = <<>>
  /\ found = <<>>
  /\ loads = <<>>
  /\ order = <<>>
  /\ err = "none"
  /\ configuration = NoConfiguration
  /\ module_swagger = Obj(<<>>)

(* The fixups of makeSchema; a second run is on the result of the first. *)
PostResolutionFixups ==
  /\ pc \in {"fixups", "fixed"}
  /\ schema' = fixups(schema)
  /\ pc' = IF pc = "fixups" THEN "fixed" ELSE "refixed"
  /\ UNCHANGED <<swagger, input, keyWord, found, loads, order, err, configuration, module_swagger>>

SpecFixups == InitFixups /\ [][PostResolutionFixups]_vars

(* An object reached through a properties ancestor: ...properties.<name>. *)
UnderProperties(p) == Len(p) >= 2 /\ p[Len(p) - 1] = s_properties

(* C1: an object O without a required list, reached through a properties *)
(* ancestor, whose properties are x = {required: true} and                *)
(* y = {type: 'string'}, has required exactly ['x'] after the fixups, and *)
(* x no longer carries a required key.                                    *)
C1_RequiredMigration ==
  pc = "fixed" =>
    \A p \in NodePaths(input) :
      ( /\ UnderProperties(p)
        /\ ~Has(GetSegs(input, p), s_required)
        /\ Prop(GetSegs(input, p), s_properties)
             = Obj(<<KV(<<"x">>, Obj(<<KV(s_required, True)>>)),
                     KV(<<"y">>, Obj(<<KV(s_type, Str(s_string))>>))>>) )
      => /\ Prop(GetSegs(schema, p), s_required) = Arr(<<Str(<<"x">>)>>)
         /\ ~Has(GetSegs(schema, p \o <<s_properties, <<"x">>>>), s_required)

(* C3: the fixups applied to their own result change nothing. *)
C3_FixupsIdempotent == [][pc = "fixed" => schema' = schema]_vars

(* The properties of the object at q none of which carries a boolean required. *)
NoBooleanRequired(n, q) ==
  \A k \in Range(Keys(Prop(GetSegs(n, q), s_properties))) :
    Prop(Prop(Prop(GetSegs(n, q), s_properties), k), s_required).t \notin {"true", "false"}

(* The names listed in the required collection of node n. *)
Listed(n) == { Prop(n, s_required).kv[i].v : i \in 1..Len(Prop(n, s_required).kv) }

(* C9: an object whose required is already a sequence, a property under  *)
(* another object's properties included, keeps that sequence through the *)
(* fixups, and its presence does not add its sibling properties to the   *)
(* enclosing object's required list.                                     *)
C9_MigratedObjectsSkipped ==
  pc = "fixed" =>
    \A p \in NodePaths(input) :
      IsArray(Prop(GetSegs(input, p), s_required)) =>
        /\ Prop(GetSegs(schema, p), s_required) = Prop(GetSegs(input, p), s_required)
        /\ (UnderProperties(p) /\ NoBooleanRequired(input, SubSeq(p, 1, Len(p) - 2))) =>
             \A k \in Range(Keys(GetSegs(input, DropRight(p)))) :
               (k # p[Len(p)] /\ Str(k) \notin Listed(GetSegs(input, SubSeq(p, 1, Len(p) - 2))))
                 => Str(k) \notin Listed(GetSegs(schema, SubSeq(p, 1, Len(p) - 2)))

---------------------------------------------------------------------------
(* addSchemaProps applied to bounded documents. *)

PropContainers == 2

s_Pet == s_H_definitions \o <<"/", "P", "e", "t">>

s_Cat == s_H_definitions \o <<"/", "C", "a", "t">>

Ref(r) == Obj(<<KV(s_Dref, Str(r))>>)

(* The schema shapes: array of $ref, array of inline items, scalar, the *)
(* three combinators (one with an inline entry), bare $ref, and a       *)
(* schema with neither type, combinator nor $ref.                       *)
PropSchemas ==
  { Obj(<<KV(s_type, Str(s_array)), KV(s_items, Ref(s_Pet))>>),
    Obj(<<KV(s_type, Str(s_array)), KV(s_items, Obj(<<KV(s_type, Str(s_string))>>))>>),
    Obj(<<KV(s_type, Str(s_string))>>),
    Obj(<<KV(s_oneOf, Arr(<<Ref(s_Pet), Ref(s_Cat)>>))>>),
    Obj(<<KV(s_allOf, Arr(<<Ref(s_Pet), Obj(<<KV(s_type, Str(s_string))>>)>>))>>),
    Obj(<<KV(s_anyOf, Arr(<<Ref(s_Cat)>>))>>),
    Ref(s_Pet),
    Obj(<<>>) }

(* The i-th container: a response (odd i) or a body parameter in a list *)
(* (even i), named n<i> when named.                                     *)
PropContainer(i, named, sch) ==
  IF named
    THEN Obj(<<KV(s_name, Str(<<"n">> \o Idx(i))), KV(s_description, Str(<<"d">> \o Idx(i))),
               KV(s_schema, sch)>>)
    ELSE Obj(<<KV(s_description, Str(<<"d">> \o Idx(i))), KV(s_schema, sch)>>)

s_paths == <<"p", "a", "t", "h", "s">>

(* The key sequence from the root to the i-th container. *)
ContainerAt(i) ==
  IF i % 2 = 1
    THEN <<s_paths, <<"/">> \o Idx(i), <<"g", "e", "t">>, <<"r", "e", "s", "p", "o", "n", "s", "e", "s">>, <<"2", "0", "0">>>>
    ELSE <<s_paths, <<"/">> \o Idx(i), <<"p", "o", "s", "t">>, <<"p", "a", "r", "a", "m", "e", "t", "e", "r", "s">>, <<"0">>>>

(* The path item of the i-th container c. *)
PathItem(i, c) ==
  IF i % 2 = 1
    THEN Obj(<<KV(ContainerAt(i)[3], Obj(<<KV(ContainerAt(i)[4], Obj(<<KV(ContainerAt(i)[5], c)>>))>>))>>)
    ELSE Obj(<<KV(ContainerAt(i)[3], Obj(<<KV(ContainerAt(i)[4], Arr(<<c>>))>>))>>)

(* The document whose paths hold the containers chosen by f. *)
PropDoc(f) ==
  Obj(<<KV(s_swagger, Str(<<"2", ".", "0">>)),
        KV(s_paths, Obj([i \in DOMAIN f |->
                           KV(<<"/">> \o Idx(i), PathItem(i, PropContainer(i, f[i][1], f[i][2])))]))>>)

PropDocs(containers) == { PropDoc(f) : f \in [1..containers -> BOOLEAN \X PropSchemas] }

(* The property bag as makeSchema seeds it for a Swagger 2 document. *)
SeedProps ==
  Obj(<<KV(s_schemaVersion,
           Obj(<<KV(s_type, Str(s_string)), KV(s_description, Str(s_schemaVersion_description))>>))>>)

InitProps ==
  /\ pc = "addSchemaProps"
  /\ swagger \in PropDocs(PropContainers)
  /\ input = swagger
  /\ schema = SeedProps
  /\ keyWord = <<>>
  /\ found = <<>>
  /\ loads = <<>>
  /\ order = <<>>
  /\ err = "none"
  /\ configuration = NoConfiguration
  /\ module_swagger = Obj(<<>>)

(* The variables after addSchemaProps returned r. *)
AddSchemaPropsReturns(r) ==
  /\ schema' = r.props
  /\ swagger' = r.doc
  /\ err' = r.err

CallAddSchemaProps ==
  /\ pc = "addSchemaProps"
  /\ AddSchemaPropsReturns(addSchemaProps(swagger, schema))
  /\ pc' = "done"
  /\ UNCHANGED <<input, keyWord, found, loads, order, configuration, module_swagger>>

SpecProps == InitProps /\ [][CallAddSchemaProps]_vars

(* The i-th container of the input document and what a registration of it holds. *)
InContainer(i) == GetSegs(input, ContainerAt(i))

InSchema(i) == Prop(InContainer(i), s_schema)

Registered(i) == SetProp(InSchema(i), s_description, Prop(InContainer(i), s_description))

Named(i) == Truthy(Prop(InContainer(i), s_name))

(* The shapes of the i-th container's schema. *)
IsArrayOfRef(i) ==
  Prop(InSchema(i), s_type) = Str(s_array) /\ Truthy(Prop(Prop(InSchema(i), s_items), s_Dref))

IsScalar(i) == Truthy(Prop(InSchema(i), s_type)) /\ Prop(InSchema(i), s_type) # Str(s_array)

IsCombinator(i) ==
  /\ ~Truthy(Prop(InSchema(i), s_type))
  /\ \E k \in {s_oneOf, s_allOf, s_anyOf} : Truthy(Prop(InSchema(i), k))

IsBareRef(i) ==
  ~Truthy(Prop(InSchema(i), s_type)) /\ ~IsCombinator(i) /\ IsString(Prop(InSchema(i), s_Dref))

(* The names the $refs of the combinator list of container i give. *)
CombinatorRefNames(i) ==
  LET list == resolveCombineSchema(InSchema(i))
  IN { LowerFirst(RefName(Prop(list.kv[j].v, s_Dref).s)) :
         j \in { h \in 1..Len(list.kv) : IsString(Prop(list.kv[h].v, s_Dref)) } }

(* The statement of C4 as claimed: a named container is registered under *)
(* exactly its name whatever the shape of its schema.                    *)
C4_NameUsedForEveryShape ==
  (pc = "done" /\ err = "none") =>
    \A i \in 1..PropContainers :
      (Named(i) /\ (IsArrayOfRef(i) \/ IsScalar(i) \/ IsCombinator(i) \/ IsBareRef(i)))
        => Prop(schema, Prop(InContainer(i), s_name).s) = Registered(i)

(* C4 (amended): a named container whose schema has a type (an array of *)
(* $ref items, or a scalar) is registered under exactly its name and    *)
(* not under the name derived from its path; a named container whose    *)
(* schema is a combinator or a bare $ref is registered under the names  *)
(* derived from its $refs and not under its own name.                   *)
C4_NameUsedForTypedSchemas ==
  (pc = "done" /\ err = "none") =>
    \A i \in 1..PropContainers :
      Named(i) =>
        /\ (IsArrayOfRef(i) \/ IsScalar(i))
             => Prop(schema, Prop(InContainer(i), s_name).s) = Registered(i)
        /\ IsScalar(i)
             => ~Has(schema, Slice(ContainerAt(i)[2], 1) \o <<"_">> \o ContainerAt(i)[4])
        /\ (IsArrayOfRef(i) /\ \A j \in 1..PropContainers : IsArrayOfRef(j) => Named(j))
             => ~Has(schema, s_arrayOf \o RefName(Prop(Prop(InSchema(i), s_items), s_Dref).s))
        /\ IsBareRef(i)
             => /\ ~Has(schema, Prop(InContainer(i), s_name).s)
                /\ Has(schema, LowerFirst(RefName(Prop(InSchema(i), s_Dref).s)))
        /\ IsCombinator(i)
             => /\ ~Has(schema, Prop(InContainer(i), s_name).s)
                /\ \A n \in CombinatorRefNames(i) : Has(schema, n)

(* A named array-of-$ref container and a named bare-$ref container were *)
(* both processed without error.                                         *)
C4_Witness ==
  /\ pc = "done"
  /\ err = "none"
  /\ \E i \in 1..PropContainers : Named(i) /\ IsArrayOfRef(i)
  /\ \E i \in 1..PropContainers : Named(i) /\ IsBareRef(i)

(* C10: a combinator schema registers one property per list entry with *)
(* a $ref, named by the ref's last segment with its first letter       *)
(* lowercased, each holding the whole combinator schema with the       *)
(* container's description; entries without a $ref register nothing    *)
(* and the call does not raise the parse error.                        *)
C10_CombinatorFanOut ==
  pc = "done" =>
    ( (\A i \in 1..PropContainers : IsCombinator(i))
        => /\ err = "none"
           /\ \A i \in 1..PropContainers : \A n \in CombinatorRefNames(i) :
                \E j \in 1..PropContainers : n \in CombinatorRefNames(j) /\ Prop(schema, n) = Registered(j)
           /\ Range(Keys(schema))
                = {s_schemaVersion} \cup UNION { CombinatorRefNames(i) : i \in 1..PropContainers } )

---------------------------------------------------------------------------
(* makeSchema on bounded documents, with the loads of resolve$ref as tasks. *)

RefSlots == 2

s_a_yaml == <<"a", ".", "y", "a", "m", "l">>

s_b_yaml == <<"b", ".", "y", "a", "m", "l">>

s_get == <<"g", "e", "t">>

s_integer == <<"i", "n", "t", "e", "g", "e", "r">>

Response(c) ==
  Obj(<<KV(<<"r", "e", "s", "p", "o", "n", "s", "e", "s">>, Obj(<<KV(<<"2", "0", "0">>, c)>>))>>)

(* The files the references of the documents name: an operation whose *)
(* response points into the file's own components.                    *)
Files(yamlFile) ==
  IF yamlFile = s_a_yaml
    THEN SpreadBoth(Response(Obj(<<KV(s_description, Str(<<"d", "a">>)),
                                   KV(s_schema, Ref(s_H_components_schemas \o <<"/", "P", "e", "t">>))>>)),
                    Obj(<<KV(s_components,
                             Obj(<<KV(s_schemas,
                                      Obj(<<KV(<<"P", "e", "t">>, Obj(<<KV(s_type, Str(s_string))>>))>>))>>))>>))
  ELSE IF yamlFile = s_b_yaml
    THEN SpreadBoth(Response(Obj(<<KV(s_description, Str(<<"d", "b">>)),
                                   KV(s_schema, Ref(s_H_components_schemas \o <<"/", "C", "a", "t">>))>>)),
                    Obj(<<KV(s_components,
                             Obj(<<KV(s_schemas,
                                      Obj(<<KV(<<"P", "e", "t">>, Obj(<<KV(s_type, Str(s_integer))>>)),
                                            KV(<<"C", "a", "t">>,
                                               Obj(<<KV(s_type, Str(s_string)), KV(s_nullable, True)>>))>>))>>))>>))
  ELSE Obj(<<>>)

(* loadReferenceFile(yamlFile, root) when the read succeeds: the parsed *)
(* file, undefined for an empty reference.                              *)
loadReferenceFile(yamlFile) == IF yamlFile = <<>> THEN Undefined ELSE Files(yamlFile)

(* A variant of reference_files that takes the fragments in the order *)
(* their loads completed.                                             *)
reference_files_byCompletion(doc, keyPaths, completed) ==
  [k \in 1..Len(keyPaths) |-> loadReferenceFile(Get(doc, keyPaths[completed[k]]).s)]

(* Lines 116-118: Promise.all over keyPaths.map(load): the k-th result *)
(* is the file loaded for the k-th path, whatever order the loads      *)
(* completed in.                                                       *)
reference_files(doc, keyPaths, completed) ==
  [k \in 1..Len(keyPaths) |-> loadReferenceFile(Get(doc, keyPaths[k]).s)]

(* The pointer to the local definition Pet in each flavour. *)
LocalPet(flavour) ==
  IF flavour = s_swagger THEN s_Pet ELSE s_H_components_schemas \o <<"/", "P", "e", "t">>

(* What a path slot can hold: an operation with a named scalar body, an *)
(* operation answering a local definition, a reference put at the path  *)
(* item or at the operation, or an empty reference.                     *)
SlotChoices(flavour) ==
  { Obj(<<KV(s_get, Response(Obj(<<KV(s_name, Str(s_schemaVersion)), KV(s_description, Str(<<"d">>)),
                                   KV(s_schema, Obj(<<KV(s_type, Str(s_integer))>>))>>)))>>),
    Obj(<<KV(s_get, Response(Obj(<<KV(s_description, Str(<<"d">>)),
                                   KV(s_schema, Ref(LocalPet(flavour)))>>)))>>),
    Ref(s_a_yaml),
    Obj(<<KV(s_get, Ref(s_a_yaml))>>),
    Obj(<<KV(s_get, Ref(s_b_yaml))>>),
    Ref(<<>>) }

(* The local definitions of a document that has some. *)
LocalDefinitions ==
  Obj(<<KV(<<"P", "e", "t">>,
           Obj(<<KV(s_type, Str(<<"o">>)), KV(s_nullable, True),
                 KV(s_properties, Obj(<<KV(<<"i", "d">>, Obj(<<KV(s_type, Str(s_string)),
                                                                KV(s_required, True)>>))>>))>>))>>)

(* The messages of an AsyncAPI document. *)
Messages(named) ==
  Obj(<<KV(IF named THEN s_schemaVersion ELSE <<"M">>,
           Obj(<<KV(s_payload, Obj(<<KV(s_type, Str(s_integer))>>))>>))>>)

(* The document of a flavour, with or without local definitions, whose *)
(* paths /1../RefSlots hold the chosen slots.                           *)
MakeDoc(flavour, local, named, slots) ==
  LET head == <<KV(flavour, Str(IF flavour = s_openapi THEN <<"3", ".", "0">> ELSE <<"2", ".", "0">>)),
                KV(s_info, Obj(<<KV(s_title, Str(<<"T">>)), KV(s_version, Str(<<"1">>))>>)),
                KV(s_paths, Obj([i \in DOMAIN slots |-> KV(<<"/">> \o Idx(i), slots[i])]))>>
      messages == IF flavour = s_asyncapi THEN <<KV(s_messages, Messages(named))>> ELSE <<>>
      schemas == IF local THEN <<KV(s_schemas, LocalDefinitions)>> ELSE <<>>
  IN IF flavour = s_swagger
       THEN Obj(head \o (IF local THEN <<KV(s_definitions, LocalDefinitions)>> ELSE <<>>))
       ELSE Obj(head \o (IF messages \o schemas = <<>> THEN <<>>
                         ELSE <<KV(s_components, Obj(messages \o schemas))>>))

MakeDocs(refs) ==
  { MakeDoc(fl[1], local, fl[2], slots) :
      fl \in {<<s_swagger, FALSE>>, <<s_openapi, FALSE>>, <<s_asyncapi, FALSE>>, <<s_asyncapi, TRUE>>},
      local \in BOOLEAN,
      slots \in UNION { [1..refs -> SlotChoices(f)] : f \in {s_swagger, s_openapi} } }

Configurations == [resolveRefs : BOOLEAN, id : {Undefined, Str(<<"I">>)}]

Init ==
  /\ pc = "makeSchema"
  /\ swagger \in MakeDocs(RefSlots)
  /\ input = swagger
  /\ configuration \in Configurations
  /\ module_swagger = swagger
  /\ schema = Undefined
  /\ keyWord = s_Dref
  /\ found = <<>>
  /\ loads = <<>>
  /\ order = <<>>
  /\ err = "none"

(* Lines 112-118: resolve$ref returns at once when references are not *)
(* resolved, else it starts one load per external $ref.               *)
StartLoads(ext) ==
  IF ~configuration.resolveRefs
    THEN pc' = "resolved" /\ UNCHANGED <<found, loads, err>>
    ELSE IF ext.throws
      THEN pc' = "rejected" /\ err' = "TypeError" /\ UNCHANGED <<found, loads>>
      ELSE /\ pc' = "loading"
           /\ found' = ext.paths
           /\ loads' = [k \in 1..Len(ext.paths) |-> "pending"]
           /\ err' = err

(* makeSchema up to its first suspension: resolve$ref returns at once *)
(* when references are not resolved, else it starts one load per      *)
(* external $ref and awaits them all.                                 *)
MakeSchema ==
  /\ pc = "makeSchema"
  /\ StartLoads(externalKeyPaths(swagger))
  /\ UNCHANGED <<swagger, schema, input, keyWord, order, configuration, module_swagger>>

(* The load of the k-th reference completes. *)
LoadCompletes(k) ==
  /\ pc = "loading"
  /\ loads[k] = "pending"
  /\ loads' = [loads EXCEPT ![k] = "done"]
  /\ order' = Append(order, k)
  /\ module_swagger' = IF Get(swagger, found[k]).s = <<>> THEN module_swagger
                       ELSE loadReferenceFile(Get(swagger, found[k]).s)
  /\ UNCHANGED <<pc, swagger, schema, input, keyWord, found, err, configuration>>

(* The load of the k-th reference fails (the file or URL cannot be read). *)
LoadFails(k) ==
  /\ pc = "loading"
  /\ loads[k] = "pending"
  /\ loads' = [loads EXCEPT ![k] = "failed"]
  /\ UNCHANGED <<pc, swagger, schema, input, keyWord, found, order, err, configuration, module_swagger>>

(* Promise.all rejects: makeSchema rejects with the load's error. *)
LoadsRejected ==
  /\ pc = "loading"
  /\ \E k \in 1..Len(loads) : loads[k] = "failed"
  /\ pc' = "rejected"
  /\ err' = "load"
  /\ UNCHANGED <<swagger, schema, input, keyWord, found, loads, order, configuration, module_swagger>>

(* The variables after the forEach and the merge of resolve$ref gave r. *)
ResolveReturns(r) ==
  /\ swagger' = r.doc
  /\ err' = r.err
  /\ pc' = IF r.err = "none" THEN "resolved" ELSE "rejected"

(* Promise.all resolves: the rest of resolve$ref runs. *)
LoadsJoined ==
  /\ pc = "loading"
  /\ \A k \in 1..Len(loads) : loads[k] = "done"
  /\ ResolveReturns(joinFragments(swagger, found, reference_files(swagger, found, order)))
  /\ UNCHANGED <<schema, input, keyWord, found, loads, order, configuration, module_swagger>>

(* Lines 252-306: the schema r is handed to the dereferencer when   *)
(* references are resolved, else the fixups run and makeSchema ends. *)
Assembled(r) ==
  /\ swagger' = r.doc
  /\ err' = r.err
  /\ IF r.err # "none" THEN pc' = "rejected" /\ schema' = schema
     ELSE IF configuration.resolveRefs THEN pc' = "dereferencing" /\ schema' = r.schema
     ELSE pc' = "done" /\ schema' = fixups(r.schema)

(* makeSchema from the return of resolve$ref to the dereferencing call, *)
(* or to its end when references are not resolved.                      *)
AssembleSchema ==
  /\ pc = "resolved"
  /\ Assembled(assembleSchema(swagger, configuration))
  /\ UNCHANGED <<input, keyWord, found, loads, order, configuration, module_swagger>>

(* Lines 255-306 on the dereferencer's outcome r. *)
DereferenceReturns(r) ==
  IF r.throws
    THEN pc' = "rejected" /\ err' = "deref" /\ schema' = schema
    ELSE pc' = "done" /\ err' = err /\ schema' = fixups(r.schema)

(* The dereferencer returns: the fixups run, or makeSchema rejects. *)
Dereferenced ==
  /\ pc = "dereferencing"
  /\ DereferenceReturns(parseRefs(schema))
  /\ UNCHANGED <<swagger, input, keyWord, found, loads, order, configuration, module_swagger>>

Next ==
  \/ MakeSchema
  \/ \E k \in DOMAIN loads : LoadCompletes(k)
  \/ \E k \in DOMAIN loads : LoadFails(k)
  \/ LoadsRejected
  \/ LoadsJoined
  \/ AssembleSchema
  \/ Dereferenced

Spec == Init /\ [][Next]_vars

---------------------------------------------------------------------------
(* Properties of resolve$ref and makeSchema. *)

(* resolve$ref returned to makeSchema after resolving references. *)
Resolved == pc = "resolved" /\ configuration.resolveRefs /\ err = "none"

(* The file loaded for the k-th external reference of the input document, *)
(* its namespace, and its content after the rewrite of its pointers.      *)
Fragment(k) == loadReferenceFile(Get(input, found[k]).s)

Namespace(k) == StripSlash(refName(found[k]))

Rewritten(k) == rewriteFragment(Fragment(k), refName(found[k])).frag

FragmentSchemas(k) == Prop(Prop(Rewritten(k), s_components), s_schemas)

(* The references whose fragment contributes components.schemas entries. *)
Contributing ==
  { k \in 1..Len(found) : IsObject(FragmentSchemas(k)) /\ FragmentSchemas(k).kv # <<>> }

RenamedKeys(k) ==
  { Namespace(k) \o <<"_">> \o FragmentSchemas(k).kv[i].k : i \in 1..Len(FragmentSchemas(k).kv) }

(* The entry that fragment k contributes under the renamed key. *)
RenamedEntry(k, key) ==
  LET i == CHOOSE i \in 1..Len(FragmentSchemas(k).kv) :
             Namespace(k) \o <<"_">> \o FragmentSchemas(k).kv[i].k = key
  IN FragmentSchemas(k).kv[i].v

(* The first fragment that contributes the renamed key. *)
FirstSeen(key) ==
  CHOOSE k \in Contributing :
    key \in RenamedKeys(k) /\ \A j \in Contributing : key \in RenamedKeys(j) => k <= j

(* Every fragment definition is in the registry under its renamed key, *)
(* the first-seen fragment's entry on a collision.                      *)
FragmentDefinitionsRegistered ==
  \A k \in Contributing : \A key \in RenamedKeys(k) :
    Prop(Prop(Prop(swagger, s_components), s_schemas), key) = RenamedEntry(FirstSeen(key), key)

(* C5: after resolve$ref with resolveRefs enabled, when the main document *)
(* has its own components.schemas entries and some fragment contributes  *)
(* components.schemas entries, the resulting components.schemas holds    *)
(* every local definition of the main document and every fragment        *)
(* definition under <namespace>_<key>, the first-seen fragment's entry   *)
(* on a collision of renamed keys.                                       *)
C5_RegistryKeepsLocalDefinitions ==
  Resolved =>
    LET local == Prop(Prop(input, s_components), s_schemas)
    IN (IsObject(local) /\ local.kv # <<>> /\ Contributing # {}) =>
         /\ \A i \in 1..Len(local.kv) :
              Prop(Prop(Prop(swagger, s_components), s_schemas), local.kv[i].k) = local.kv[i].v
         /\ FragmentDefinitionsRegistered

(* C6: the document is not mutated while a load is pending; when a load *)
(* failed the document is as it was given and the pipeline aborts with  *)
(* it so; once resolve$ref returned, the parent of the k-th external    *)
(* reference holds the file loaded from that reference's string         *)
(* (rewritten, without its components), whatever order the loads        *)
(* completed in.                                                        *)
C6_JoinBeforeMutation ==
  /\ swagger # input
       => pc \notin {"makeSchema", "loading"} /\ \A k \in DOMAIN loads : loads[k] = "done"
  /\ (\E k \in DOMAIN loads : loads[k] = "failed") => swagger = input /\ pc \in {"loading", "rejected"}
  /\ (pc = "rejected" /\ err = "load") => swagger = input /\ schema = Undefined
  /\ Resolved =>
       /\ found = externalKeyPaths(input).paths
       /\ \A k \in 1..Len(found) :
            GetPathArray(swagger, DropRight(Split(found[k], Dot))) = Omit(Rewritten(k), s_components)

(* Two references to different files were loaded, the second completed *)
(* first, and resolve$ref applied both fragments.                      *)
C6_Witness ==
  /\ Resolved
  /\ order = <<2, 1>>
  /\ Fragment(1) # Fragment(2)
  /\ swagger # input

(* C8: the schema makeSchema returns has the seeded string-typed       *)
(* schemaVersion entry in properties and "schemaVersion" in its        *)
(* top-level required, for every flavour and configuration.            *)
C8_SchemaVersionSeeded ==
  pc = "done" =>
    /\ Prop(Prop(schema, s_properties), s_schemaVersion)
         = Obj(<<KV(s_type, Str(s_string)), KV(s_description, Str(s_schemaVersion_description))>>)
    /\ IsArray(Prop(schema, s_required))
    /\ \E i \in 1..Len(Prop(schema, s_required).kv) :
         Prop(schema, s_required).kv[i].v = Str(s_schemaVersion)

====
